---- MODULE Spec2Model ----
(***************************************************************************)
(* Model of linux-entra-sso.py: the native-messaging daemon                *)
(* (run_as_native_messaging), its frame writer, the SsoMib broker client   *)
(* and the session loop.                                                   *)
(*                                                                         *)
(* JSON values are modelled by tagged strings and records:                 *)
(*   "ABSENT"  the key is not in the object                                *)
(*   "NULL"    JSON null                                                   *)
(*   "NUMBER"  a JSON number (any non-string, truthy value)                *)
(*   ""        the empty string                                            *)
(* every other string is itself.                                           *)
(***************************************************************************)
EXTENDS Integers, Sequences, FiniteSets, TLC

VARIABLES
    stdin,      \* the inbound stream: the frames the extension sends, then end-of-stream
    pos,        \* number of inbound frames get_message has consumed
    pc,         \* position of the main context (startup, session loop)
    iomutex,    \* holder of the Lock of line 146: "free", "main" or "notifier"
    broker,     \* SsoMib.broker: 0 is None, otherwise the id of a Popen handle
    spawned,    \* number of subprocesses spawned so far (handle ids are 1..spawned)
    live,       \* ids of the subprocesses that were spawned and have not exited
    used,       \* ids of the handles a communicate() call has been made on
    calls,      \* history of broker calls: handle, owning frame, request sent
    spawnedAt,  \* handle id -> index of the inbound frame during which it was spawned (0: startup)
    cb,         \* SsoMib._state_changed_cb is set
    received,   \* received_message of the loop
    cmd,        \* cmd of the loop
    sso_url,    \* sso_url of handle_command
    pending,    \* the envelope respond() is writing
    stdout,     \* the chunks written to sys.stdout.buffer, in order
    npc,        \* position of the notifier context
    nonline,    \* argument of the notifier's notify_state_change call
    notifs,     \* number of notifier invocations so far
    raised,     \* history: the exceptions handle_command raised, <<frame, cause>>
    fpc,        \* outside the daemon: position of a single function call or of run_interactive
    farg,       \* outside the daemon: the arguments
    fres        \* outside the daemon: the result so far

\* the daemon's variables
daemonVars == <<stdin, pos, pc, iomutex, broker, spawned, live, used, calls, spawnedAt,
                cb, received, cmd, sso_url, pending, stdout, npc, nonline, notifs, raised>>
\* the variables of the runs that are not the daemon's
fnVars == <<fpc, farg, fres>>

vars == <<daemonVars, fnVars>>

(***************************************************************************)
(* Bounds                                                                  *)
(***************************************************************************)
MaxFrames == 2      \* longest inbound stream, in frames
MaxNotifs == 1      \* invocations of the registered callback by the notifier context

(***************************************************************************)
(* Program constants                                                       *)
(***************************************************************************)
LINUX_ENTRA_SSO_VERSION == "0.0.0-dev"
SSO_URL_DEFAULT == "https://login.microsoftonline.com/"
processing_error == [error |-> "Failure during request processing"]

\* the commands handle_command has a branch for
Recognized == {"acquirePrtSsoCookie", "acquireTokenSilently", "getAccounts", "getVersion"}

NoMsg == [kind |-> "none"]
Obj(c, a, u) == [kind |-> "object", command |-> c, account |-> a, ssoUrl |-> u]

\* the inbound frames the extension (or anything else writing to stdin) may send:
\* every one is completely framed and parses as JSON
Messages ==
    { Obj("getAccounts", "ABSENT", "ABSENT"),
      Obj("getVersion", "ABSENT", "ABSENT"),
      Obj("acquireTokenSilently", "acct", "ABSENT"),
      Obj("acquireTokenSilently", "ABSENT", "ABSENT"),
      Obj("acquirePrtSsoCookie", "acct", "https://example.org/"),
      Obj("acquirePrtSsoCookie", "acct", ""),
      Obj("acquirePrtSsoCookie", "acct", "NULL"),
      Obj("acquirePrtSsoCookie", "acct", "ABSENT"),
      Obj("acquirePrtSsoCookie", "acct", "NUMBER"),
      Obj("acquirePrtSsoCookie", "ABSENT", "https://example.org/"),
      Obj("monitor", "ABSENT", "ABSENT"),
      Obj("ABSENT", "ABSENT", "ABSENT"),
      Obj("NUMBER", "ABSENT", "ABSENT"),
      [kind |-> "array"] }

\* one frame for each way through the loop body: answered at once, answered
\* after a broker call, failing before the broker call, ignored, and fatal
NotifierMessages ==
    { Obj("getVersion", "ABSENT", "ABSENT"),
      Obj("acquirePrtSsoCookie", "acct", "https://example.org/"),
      Obj("acquirePrtSsoCookie", "ABSENT", "https://example.org/"),
      Obj("monitor", "ABSENT", "ABSENT"),
      Obj("NUMBER", "ABSENT", "ABSENT") }

\* streams of at most n frames drawn from M
RECURSIVE Streams(_, _)
Streams(M, n) ==
    IF n = 0 THEN { <<>> }
    ELSE LET shorter == Streams(M, n - 1)
         IN  shorter \cup { Append(s, m) : s \in { t \in shorter : Len(t) = n - 1 }, m \in M }

IsStr(v) == v \notin {"ABSENT", "NULL", "NUMBER"}
\* Python truthiness of a JSON value
Truthy(v) == v \notin {"NULL", ""}

(***************************************************************************)
(* JSON access with Python's semantics                                     *)
(***************************************************************************)
\* received_message[key] raises (KeyError, TypeError) unless the message is an
\* object that has the key
HasKey(msg, key) ==
    /\ msg.kind = "object"
    /\ CASE key = "command" -> msg.command # "ABSENT"
         [] key = "account" -> msg.account # "ABSENT"
         [] key = "ssoUrl"  -> msg.ssoUrl # "ABSENT"
         [] OTHER -> FALSE

Str(s) == [str |-> s]
\* respond, line 157: the envelope {"command": command, "message": message}
Envelope_fixed_command(c, m) == [command |-> "response", message |-> m]

Envelope(c, m) == [command |-> c, message |-> m]
NoEnv == [command |-> "", message |-> Str("")]

(***************************************************************************)
(* SsoMib                                                                  *)
(***************************************************************************)
\* SsoMib._introspect_broker with self.broker = b, n handles spawned so far;
\* ok: whether Popen can start the broker executable (it raises otherwise)
_introspect_broker_always_spawns(b, n, ok) ==
    IF ok THEN [raised |-> FALSE, broker |-> n + 1, spawn |-> TRUE]
    ELSE [raised |-> TRUE, broker |-> b, spawn |-> FALSE]

_introspect_broker(b, n, ok) ==
    IF b # 0 THEN [raised |-> FALSE, broker |-> b, spawn |-> FALSE]
    ELSE IF ok THEN [raised |-> FALSE, broker |-> n + 1, spawn |-> TRUE]
    ELSE [raised |-> TRUE, broker |-> 0, spawn |-> FALSE]

\* the broker's replies: a 4-byte length prefix and a payload of that many bytes.
\* A payload's bytes are modelled by their positions (1000 + i: never whitespace),
\* its JSON value by json.
Cookie1 == [name |-> "X-Anon", data |-> <<"a", "b", ";", "P", ";", "S">>]
Cookie2 == [name |-> "other", data |-> <<"z">>]
ReplyJsons ==
    { [kind |-> "invalid"],
      [kind |-> "json", response |-> <<>>],
      [kind |-> "json", response |-> <<Cookie1>>],
      [kind |-> "json", response |-> <<Cookie2, Cookie1>>] }
ReplyLens == {10, 40}
BrokerReplies == { [len |-> n, json |-> j] : n \in ReplyLens, j \in ReplyJsons }

\* the 4-byte length prefix of a frame of the broker protocol: 32 bits, little
\* endian, as struct.pack("@L", n) of line 93 writes it
PackL(n) == << n % 256, (n \div 256) % 256, (n \div 65536) % 256, (n \div 16777216) % 256 >>
Payload(n) == [i \in 1..n |-> 1000 + i]
RawReply(reply) == PackL(reply.len) \o Payload(reply.len)

\* bytes.strip(): ASCII whitespace removed at both ends
IsSpace(b) == b \in {9, 10, 11, 12, 13, 32}
RECURSIVE LStrip(_)
LStrip(s) == IF s # <<>> /\ IsSpace(Head(s)) THEN LStrip(Tail(s)) ELSE s
RECURSIVE RStrip(_)
RStrip(s) == IF s # <<>> /\ IsSpace(s[Len(s)]) THEN RStrip(SubSeq(s, 1, Len(s) - 1)) ELSE s
Strip(s) == RStrip(LStrip(s))
\* s[4:]
From4(s) == SubSeq(s, 5, Len(s))

\* SsoMib._communicate, lines 96-99, on the output the subprocess wrote:
\* json.loads raises unless the text left is the payload and the payload is JSON
_communicate(reply) ==
    LET rest == From4(Strip(RawReply(reply)))
    IN  IF rest = Payload(reply.len) /\ reply.json.kind = "json"
        THEN [raised |-> FALSE, resp |-> reply.json]
        ELSE [raised |-> TRUE, resp |-> reply.json]

\* line 95, self.broker = None: the value of self.broker after communicate()
\* on handle b
HandleAfterCommunicate_kept(b) == b

HandleAfterCommunicate(b) == 0

\* str.split(";")[0]
RECURSIVE SplitFirst(_)
SplitFirst(s) ==
    IF s = <<>> \/ Head(s) = ";" THEN <<>> ELSE <<Head(s)>> \o SplitFirst(Tail(s))

\* lines 125-129 reading the last cookie, resp["response"][-1]
CookieResult_last_cookie(resp) ==
    IF Len(resp.response) = 0
    THEN [raised |-> TRUE, value |-> [cookieName |-> "", cookieContent |-> <<>>]]
    ELSE [raised |-> FALSE,
          value |-> [cookieName |-> resp.response[Len(resp.response)].name,
                     cookieContent |-> SplitFirst(resp.response[Len(resp.response)].data)]]

\* SsoMib.acquire_prt_sso_cookie, lines 123-132, on the parsed reply
CookieResult(resp) ==
    IF Len(resp.response) = 0
    THEN [raised |-> TRUE, value |-> [cookieName |-> "", cookieContent |-> <<>>]]
    ELSE [raised |-> FALSE,
          value |-> [cookieName |-> resp.response[1].name,
                     cookieContent |-> SplitFirst(resp.response[1].data)]]

get_accounts == [accounts |-> << [name |-> "Windows User", username |-> "windows_user"] >>]
acquire_token_silently == [error |-> "not implemented"]
get_broker_version == [linuxBrokerVersion |-> -1, native |-> LINUX_ENTRA_SSO_VERSION]

(***************************************************************************)
(* Initial state: the process has started in daemon mode, nothing has run   *)
(***************************************************************************)
DaemonInit(streams) ==
    /\ stdin \in streams
    /\ pos = 0
    /\ pc = "construct"
    /\ iomutex = "free"
    /\ broker = 0
    /\ spawned = 0
    /\ live = {}
    /\ used = {}
    /\ calls = <<>>
    /\ spawnedAt = <<>>
    /\ cb = FALSE
    /\ received = NoMsg
    /\ cmd = ""
    /\ sso_url = ""
    /\ pending = NoEnv
    /\ stdout = <<>>
    /\ npc = "idle"
    /\ nonline = FALSE
    /\ notifs = 0
    /\ raised = <<>>

\* the process runs as the daemon
InitWith(streams) ==
    /\ DaemonInit(streams)
    /\ fpc = "daemon"
    /\ farg = <<>>
    /\ fres = <<>>

Init == InitWith(Streams(Messages, MaxFrames))

\* the streams under which the two contexts are interleaved
InitNotifier == InitWith(Streams(NotifierMessages, MaxFrames))

notifierVars == <<npc, nonline, notifs>>
brokerVars == <<broker, spawned, live, spawnedAt>>
loopVars == <<received, cmd, sso_url>>

\* the effect of a _introspect_broker call with result r
Introspected(r) ==
    /\ broker' = r.broker
    /\ spawned' = IF r.spawn THEN spawned + 1 ELSE spawned
    /\ live' = IF r.spawn THEN live \cup {spawned + 1} ELSE live
    /\ spawnedAt' = IF r.spawn THEN Append(spawnedAt, pos) ELSE spawnedAt

\* handle_command raises: control passes to the except clause of line 199
Raise(cause) ==
    /\ raised' = Append(raised, <<pos, cause>>)
    /\ pc' = "except"

(***************************************************************************)
(* Startup, lines 188-191                                                  *)
(***************************************************************************)
\* ssomib = SsoMib(daemon=True): __init__ calls _introspect_broker, whose Popen
\* raises when the executable cannot be started; nothing catches it
SsoMib_init ==
    /\ pc = "construct"
    /\ \E ok \in BOOLEAN :
         LET r == _introspect_broker(broker, spawned, ok)
         IN  /\ Introspected(r)
             /\ pc' = IF r.raised THEN "crashed" ELSE "register"
    /\ UNCHANGED <<fnVars, stdin, pos, iomutex, used, calls, cb, loopVars, pending, stdout,
                   notifierVars, raised>>

\* ssomib.on_broker_state_changed(notify_state_change)
on_broker_state_changed ==
    /\ pc = "register"
    /\ cb' = TRUE
    /\ pc' = "notify"
    /\ UNCHANGED <<fnVars, stdin, pos, iomutex, brokerVars, used, calls, loopVars, pending,
                   stdout, notifierVars, raised>>

\* notify_state_change(bool(ssomib.broker)) in the main context: with iomutex
notify_state_change ==
    /\ pc = "notify"
    /\ iomutex = "free"
    /\ iomutex' = "main"
    /\ pending' = Envelope("brokerStateChanged",
                           Str(IF broker # 0 THEN "online" ELSE "offline"))
    /\ pc' = "send_length"
    /\ UNCHANGED <<fnVars, stdin, pos, brokerVars, used, calls, cb, loopVars, stdout,
                   notifierVars, raised>>

(***************************************************************************)
(* NativeMessaging.send_message in the main context, lines 65-67           *)
(***************************************************************************)
Chunk(part, ctx, req, env) == [part |-> part, ctx |-> ctx, req |-> req, env |-> env]

send_length ==
    /\ pc = "send_length"
    /\ stdout' = Append(stdout, Chunk("length", "main", pos, pending))
    /\ pc' = "send_content"
    /\ UNCHANGED <<fnVars, stdin, pos, iomutex, brokerVars, used, calls, cb, loopVars, pending,
                   notifierVars, raised>>

send_content ==
    /\ pc = "send_content"
    /\ stdout' = Append(stdout, Chunk("content", "main", pos, pending))
    /\ pc' = "unlock"
    /\ UNCHANGED <<fnVars, stdin, pos, iomutex, brokerVars, used, calls, cb, loopVars, pending,
                   notifierVars, raised>>

\* the lock is not released at the end of the block
unlock_keeps_lock ==
    /\ pc = "unlock"
    /\ pc' = "read"
    /\ received' = NoMsg
    /\ cmd' = ""
    /\ sso_url' = ""
    /\ pending' = NoEnv
    /\ UNCHANGED <<fnVars, stdin, pos, iomutex, brokerVars, used, calls, cb, stdout, notifierVars,
                   raised>>

\* the end of a with iomutex block in the main context (line 162 at startup,
\* line 201 in the loop); the loop goes on to read the next frame
unlock ==
    /\ pc = "unlock"
    /\ iomutex' = "free"
    /\ pc' = "read"
    /\ received' = NoMsg
    /\ cmd' = ""
    /\ sso_url' = ""
    /\ pending' = NoEnv
    /\ UNCHANGED <<fnVars, stdin, pos, brokerVars, used, calls, cb, stdout, notifierVars, raised>>

(***************************************************************************)
(* The session loop, lines 192-201                                         *)
(***************************************************************************)
\* get_message without the test of line 43: struct.unpack raises on b""
get_message_without_eof_test ==
    /\ pc = "read"
    /\ IF pos = Len(stdin)
       THEN /\ pc' = "crashed"
            /\ UNCHANGED <<pos, received>>
       ELSE /\ pos' = pos + 1
            /\ received' = stdin[pos + 1]
            /\ pc' = "lock"
    /\ UNCHANGED <<fnVars, stdin, iomutex, brokerVars, used, calls, cb, cmd, sso_url, pending,
                   stdout, notifierVars, raised>>

\* NativeMessaging.get_message: sys.exit(0) at the end of the stream
get_message ==
    /\ pc = "read"
    /\ IF pos = Len(stdin)
       THEN /\ pc' = "exited"
            /\ UNCHANGED <<pos, received>>
       ELSE /\ pos' = pos + 1
            /\ received' = stdin[pos + 1]
            /\ pc' = "lock"
    /\ UNCHANGED <<fnVars, stdin, iomutex, brokerVars, used, calls, cb, cmd, sso_url, pending,
                   stdout, notifierVars, raised>>

\* with iomutex: (line 194)
lock ==
    /\ pc = "lock"
    /\ iomutex = "free"
    /\ iomutex' = "main"
    /\ pc' = "getcmd"
    /\ UNCHANGED <<fnVars, stdin, pos, brokerVars, used, calls, cb, loopVars, pending, stdout,
                   notifierVars, raised>>

\* lines 195-196, outside the try: received_message["command"] raises unless the
\* message is an object with that key, "received cmd " + cmd unless cmd is a str
getcmd ==
    /\ pc = "getcmd"
    /\ IF HasKey(received, "command") /\ IsStr(received.command)
       THEN /\ cmd' = received.command
            /\ pc' = "handle"
            /\ UNCHANGED iomutex
       ELSE /\ pc' = "crashed"
            /\ iomutex' = "free"
            /\ UNCHANGED cmd
    /\ UNCHANGED <<fnVars, stdin, pos, brokerVars, used, calls, cb, received, sso_url, pending,
                   stdout, notifierVars, raised>>

\* handle_command, lines 164-179, up to the broker call
handle_command ==
    /\ pc = "handle"
    /\ CASE cmd = "acquirePrtSsoCookie" ->
              IF ~HasKey(received, "account") THEN
                  Raise("field") /\ UNCHANGED <<sso_url, pending>>
              ELSE IF ~HasKey(received, "ssoUrl") THEN
                  Raise("field") /\ UNCHANGED <<sso_url, pending>>
              ELSE LET url == IF Truthy(received.ssoUrl) THEN received.ssoUrl
                              ELSE SSO_URL_DEFAULT
                   IN  /\ sso_url' = url
                       /\ UNCHANGED pending
                       /\ IF IsStr(url)
                          THEN pc' = "introspect" /\ UNCHANGED raised
                          ELSE Raise("type")
         [] cmd = "acquireTokenSilently" ->
              IF ~HasKey(received, "account") THEN
                  Raise("field") /\ UNCHANGED <<sso_url, pending>>
              ELSE /\ pending' = Envelope(cmd, acquire_token_silently)
                   /\ pc' = "send_length"
                   /\ UNCHANGED <<sso_url, raised>>
         [] cmd = "getAccounts" ->
              /\ pending' = Envelope(cmd, get_accounts)
              /\ pc' = "send_length"
              /\ UNCHANGED <<sso_url, raised>>
         [] cmd = "getVersion" ->
              /\ pending' = Envelope(cmd, get_broker_version)
              /\ pc' = "send_length"
              /\ UNCHANGED <<sso_url, raised>>
         [] OTHER ->
              /\ pc' = "unlock"
              /\ UNCHANGED <<sso_url, pending, raised>>
    /\ UNCHANGED <<fnVars, stdin, pos, iomutex, brokerVars, used, calls, cb, received, cmd,
                   stdout, notifierVars>>

\* _introspect_broker with lines 87-88 enabled: after a spawn the registered
\* callback, notify_state_change, is called in the main context
acquire_introspect_notifies ==
    /\ pc = "introspect"
    /\ \E ok \in BOOLEAN :
         LET r == _introspect_broker(broker, spawned, ok)
         IN  /\ Introspected(r)
             /\ IF r.raised THEN Raise("spawn")
                ELSE /\ pc' = IF r.spawn /\ cb THEN "notify" ELSE "communicate"
                     /\ UNCHANGED raised
    /\ UNCHANGED <<fnVars, stdin, pos, iomutex, used, calls, cb, loopVars, pending, stdout,
                   notifierVars>>

\* acquire_prt_sso_cookie, line 116: self._introspect_broker()
acquire_introspect ==
    /\ pc = "introspect"
    /\ \E ok \in BOOLEAN :
         LET r == _introspect_broker(broker, spawned, ok)
         IN  /\ Introspected(r)
             /\ IF r.raised THEN Raise("spawn")
                ELSE pc' = "communicate" /\ UNCHANGED raised
    /\ UNCHANGED <<fnVars, stdin, pos, iomutex, used, calls, cb, loopVars, pending, stdout,
                   notifierVars>>

\* lines 117-122 and 91-94: the request is written to the subprocess
communicate_start ==
    /\ pc = "communicate"
    /\ calls' = Append(calls, [handle |-> broker, frame |-> pos,
                               request |-> [method |-> "GetCookies",
                                            sender |-> "https://login.microsoftonline.com/",
                                            uri |-> sso_url]])
    /\ used' = used \cup {broker}
    /\ pc' = "broker_exit"
    /\ UNCHANGED <<fnVars, stdin, pos, iomutex, brokerVars, cb, loopVars, pending, stdout,
                   notifierVars, raised>>

\* line 95 moved behind the parsing: the handle is dropped only when the call
\* succeeds
communicate_end_clears_on_success ==
    /\ pc = "broker_exit"
    /\ \E reply \in BrokerReplies :
         LET r == _communicate(reply)
             c == CookieResult(r.resp)
         IN  IF r.raised THEN Raise("parse") /\ UNCHANGED <<pending, broker>>
             ELSE IF c.raised THEN Raise("empty") /\ UNCHANGED <<pending, broker>>
             ELSE /\ pending' = Envelope(cmd, c.value)
                  /\ pc' = "send_length"
                  /\ broker' = 0
                  /\ UNCHANGED raised
    /\ live' = live \ {broker}
    /\ UNCHANGED <<fnVars, stdin, pos, iomutex, spawned, spawnedAt, used, calls, cb, loopVars,
                   stdout, notifierVars>>

\* the drop of the handle is reported: a brokerStateChanged "offline" frame is
\* written when self.broker is cleared
communicate_end_notifies ==
    /\ pc = "broker_exit"
    /\ \E reply \in BrokerReplies :
         LET r == _communicate(reply)
             c == CookieResult(r.resp)
         IN  IF r.raised THEN Raise("parse") /\ UNCHANGED pending
             ELSE IF c.raised THEN Raise("empty") /\ UNCHANGED pending
             ELSE /\ pending' = Envelope(cmd, c.value)
                  /\ pc' = "send_length"
                  /\ UNCHANGED raised
    /\ live' = live \ {broker}
    /\ broker' = 0
    /\ stdout' = stdout \o
           << [part |-> "length", ctx |-> "main", req |-> pos,
               env |-> Envelope("brokerStateChanged", Str("offline"))],
              [part |-> "content", ctx |-> "main", req |-> pos,
               env |-> Envelope("brokerStateChanged", Str("offline"))] >>
    /\ UNCHANGED <<fnVars, stdin, pos, iomutex, spawned, spawnedAt, used, calls, cb, loopVars,
                   notifierVars>>

\* lines 94-99 and 123-132: the subprocess has exited, its output is read, the
\* handle is dropped, the reply is parsed and mapped to the cookie result
communicate_end ==
    /\ pc = "broker_exit"
    /\ \E reply \in BrokerReplies :
         LET r == _communicate(reply)
             c == CookieResult(r.resp)
         IN  IF r.raised THEN Raise("parse") /\ UNCHANGED pending
             ELSE IF c.raised THEN Raise("empty") /\ UNCHANGED pending
             ELSE /\ pending' = Envelope(cmd, c.value)
                  /\ pc' = "send_length"
                  /\ UNCHANGED raised
    /\ live' = live \ {broker}
    /\ broker' = HandleAfterCommunicate(broker)
    /\ UNCHANGED <<fnVars, stdin, pos, iomutex, spawned, spawnedAt, used, calls, cb, loopVars,
                   stdout, notifierVars>>

\* the except clause reports the cause of the failure
except_handler_forwards_cause ==
    /\ pc = "except"
    /\ pending' = Envelope(cmd, [error |-> raised[Len(raised)][2]])
    /\ pc' = "send_length"
    /\ UNCHANGED <<fnVars, stdin, pos, iomutex, brokerVars, used, calls, cb, loopVars, stdout,
                   notifierVars, raised>>

\* except Exception: (lines 199-201) respond(cmd, processing_error)
except_handler ==
    /\ pc = "except"
    /\ pending' = Envelope(cmd, processing_error)
    /\ pc' = "send_length"
    /\ UNCHANGED <<fnVars, stdin, pos, iomutex, brokerVars, used, calls, cb, loopVars, stdout,
                   notifierVars, raised>>

(***************************************************************************)
(* A notifier context: another thread calling the callback registered in   *)
(* SsoMib._state_changed_cb, that is notify_state_change (lines 160-162)   *)
(***************************************************************************)
Running == pc \notin {"exited", "crashed"}

notifier_invoke ==
    /\ npc = "idle"
    /\ cb
    /\ Running
    /\ notifs < MaxNotifs
    /\ \E online \in BOOLEAN : nonline' = online
    /\ notifs' = notifs + 1
    /\ npc' = "lock"
    /\ UNCHANGED <<fnVars, stdin, pos, pc, iomutex, brokerVars, used, calls, cb, loopVars,
                   pending, stdout, raised>>

\* notify_state_change without "with iomutex"
notifier_lock_skipped ==
    /\ npc = "lock"
    /\ npc' = "send_length"
    /\ UNCHANGED <<fnVars, stdin, pos, pc, iomutex, brokerVars, used, calls, cb, loopVars,
                   pending, stdout, nonline, notifs, raised>>

\* with iomutex: (line 161) in the notifier context
notifier_lock ==
    /\ npc = "lock"
    /\ iomutex = "free"
    /\ iomutex' = "notifier"
    /\ npc' = "send_length"
    /\ UNCHANGED <<fnVars, stdin, pos, pc, brokerVars, used, calls, cb, loopVars, pending,
                   stdout, nonline, notifs, raised>>

NotifierEnvelope == Envelope("brokerStateChanged", Str(IF nonline THEN "online" ELSE "offline"))

notifier_send_length ==
    /\ npc = "send_length"
    /\ stdout' = Append(stdout, Chunk("length", "notifier", notifs, NotifierEnvelope))
    /\ npc' = "send_content"
    /\ UNCHANGED <<fnVars, stdin, pos, pc, iomutex, brokerVars, used, calls, cb, loopVars,
                   pending, nonline, notifs, raised>>

notifier_send_content ==
    /\ npc = "send_content"
    /\ stdout' = Append(stdout, Chunk("content", "notifier", notifs, NotifierEnvelope))
    /\ npc' = "unlock"
    /\ UNCHANGED <<fnVars, stdin, pos, pc, iomutex, brokerVars, used, calls, cb, loopVars,
                   pending, nonline, notifs, raised>>

notifier_unlock ==
    /\ npc = "unlock"
    /\ iomutex' = "free"
    /\ npc' = "idle"
    /\ UNCHANGED <<fnVars, stdin, pos, pc, brokerVars, used, calls, cb, loopVars, pending,
                   stdout, nonline, notifs, raised>>

(***************************************************************************)
(* Specifications                                                          *)
(***************************************************************************)
\* the daemon as written: one context
Next ==
    \/ SsoMib_init
    \/ on_broker_state_changed
    \/ notify_state_change
    \/ send_length
    \/ send_content
    \/ unlock
    \/ get_message
    \/ lock
    \/ getcmd
    \/ handle_command
    \/ acquire_introspect
    \/ communicate_start
    \/ communicate_end
    \/ except_handler

Spec == Init /\ [][Next]_vars

\* the daemon with a second context that calls the registered callback
Notifier ==
    \/ notifier_invoke
    \/ notifier_lock
    \/ notifier_send_length
    \/ notifier_send_content
    \/ notifier_unlock

NextNotifier == Next \/ Notifier

SpecNotifier == InitNotifier /\ [][NextNotifier]_vars

\* the daemon as written, with the one context always taking its next step:
\* a runnable thread runs, a blocking read returns (a frame or the end of the
\* stream), and the broker subprocess terminates
SpecFair == Spec /\ WF_vars(Next)

(***************************************************************************)
(* Observations on a state, used by the properties below                   *)
(***************************************************************************)
\* the complete frames the main context wrote for inbound frame k (0: startup)
MainFrames(k) ==
    { i \in 1..Len(stdout) :
        stdout[i].part = "content" /\ stdout[i].ctx = "main" /\ stdout[i].req = k }
IsResponse(c) == c.part = "content" /\ c.ctx = "main" /\ c.req >= 1
\* the response frames, in the order they were written
Responses == SelectSeq(stdout, IsResponse)
CommandOf(msg) == IF HasKey(msg, "command") THEN msg.command ELSE "ABSENT"
\* the loop is through with inbound frame k
Handled(k) == k < pos \/ (k = pos /\ pc \in {"read", "exited", "crashed"})
\* every chunk at an odd place is a length prefix, every chunk at an even place
\* the payload of the frame whose prefix precedes it
WellFramed(out) ==
    \A i \in 1..Len(out) :
        IF i % 2 = 1 THEN out[i].part = "length"
        ELSE /\ out[i].part = "content"
             /\ out[i].ctx = out[i - 1].ctx
             /\ out[i].req = out[i - 1].req
             /\ out[i].env = out[i - 1].env
\* broker calls whose subprocess has not exited
InFlight == { j \in 1..Len(calls) : calls[j].handle \in live }
Processing == {"getcmd", "handle", "introspect", "communicate", "broker_exit", "except",
               "send_length", "send_content", "unlock"}

(***************************************************************************)
(* C1                                                                      *)
(***************************************************************************)
\* C1: with a notifier context running beside the session loop, a context
\* writes a chunk of a frame only while it holds iomutex, and stdout is a
\* sequence of whole frames: each length prefix is directly followed by the
\* payload of the same frame.
ThmC1_WritesUnderMutex ==
    /\ pc \in {"send_length", "send_content"} => iomutex = "main"
    /\ npc \in {"send_length", "send_content"} => iomutex = "notifier"
    /\ WellFramed(stdout)

\* the loop is in the middle of a response frame while the notifier waits
WitC1_NotifierWaitsMidFrame ==
    /\ pc = "send_content"
    /\ pos >= 1
    /\ npc = "lock"
    /\ iomutex = "main"

(***************************************************************************)
(* C2                                                                      *)
(***************************************************************************)
\* C2: once the loop is through with a decoded inbound frame, it has written
\* exactly one frame for it if its command is recognized and none otherwise,
\* and it is back reading (or has seen the end of the stream): the process
\* has not died on the frame.
ClaimC2_OneOrZeroFramesThenIdle ==
    \A k \in 1..pos :
        Handled(k) =>
            /\ Cardinality(MainFrames(k)) =
                   (IF CommandOf(stdin[k]) \in Recognized THEN 1 ELSE 0)
            /\ k = pos => pc # "crashed"

\* what does hold: the frame counts, and the return to the read for every
\* frame whose command is a string
FramesPerStringCommand ==
    \A k \in 1..pos :
        Handled(k) =>
            /\ Cardinality(MainFrames(k)) =
                   (IF CommandOf(stdin[k]) \in Recognized THEN 1 ELSE 0)
            /\ (k = pos /\ IsStr(CommandOf(stdin[k]))) => pc # "crashed"

(***************************************************************************)
(* C3                                                                      *)
(***************************************************************************)
\* C3: for every inbound frame whose handling raised, whatever the cause: the
\* handling raised once and made at most one broker call (no retry); control
\* is on the way from the except clause back to the read; and once the loop is
\* through with the frame, the one frame written for it is
\* {command: the request's command, message: processing_error}.
ThmC3_FixedErrorEnvelope ==
    \A i \in 1..Len(raised) :
        LET k == raised[i][1]
        IN  /\ Cardinality({ j \in 1..Len(raised) : raised[j][1] = k }) = 1
            /\ Cardinality({ j \in 1..Len(calls) : calls[j].frame = k }) <= 1
            /\ k = pos => pc \in {"except", "send_length", "send_content", "unlock",
                                  "read", "exited"}
            /\ Handled(k) =>
                   /\ Cardinality(MainFrames(k)) = 1
                   /\ \A f \in MainFrames(k) :
                          stdout[f].env = [command |-> stdin[k].command,
                                           message |-> processing_error]

\* two commands failed for different causes (the reply of the first did not
\* parse, the broker of the second could not be spawned) and the loop reads on
WitC3_TwoCauses ==
    /\ pc = "read"
    /\ Len(raised) = 2
    /\ raised[1][2] = "parse"
    /\ raised[2][2] = "spawn"

(***************************************************************************)
(* C4                                                                      *)
(***************************************************************************)
\* C4: whatever completely framed, parseable frames were read, the process
\* has not been terminated by an error.
ClaimC4_NoErrorExit == pos >= 1 => pc # "crashed"

(***************************************************************************)
(* C5                                                                      *)
(***************************************************************************)
\* C5: at most one broker call is in flight and at most one subprocess is
\* alive; a call in flight belongs to the frame read last, and the loop is
\* waiting for it; every frame read before the last one has no call in flight
\* and, if its command is recognized, its response is completely written.
ThmC5_OneFrameAtATime ==
    /\ Cardinality(InFlight) <= 1
    /\ Cardinality(live) <= 1
    /\ \A j \in InFlight : calls[j].frame = pos /\ pc = "broker_exit"
    /\ pc \in {"read", "lock"} => InFlight = {}
    /\ \A k \in 1..(pos - 1) :
           CommandOf(stdin[k]) \in Recognized => MainFrames(k) # {}

\* the second frame is being read or processed after a broker round trip for
\* the first, and a second broker call is in flight
WitC5_SecondCallInFlight ==
    /\ pos = 2
    /\ pc = "broker_exit"
    /\ Len(calls) = 2
    /\ InFlight = {2}

(***************************************************************************)
(* C6                                                                      *)
(***************************************************************************)
\* C6: when every frame read so far carries a recognized command, the i-th
\* response frame carries the command of the i-th request, there are never
\* more responses than requests, and there are as many once the loop is back
\* reading.
ThmC6_ResponsesInRequestOrder ==
    (\A k \in 1..pos : CommandOf(stdin[k]) \in Recognized) =>
        /\ Len(Responses) <= pos
        /\ \A i \in 1..Len(Responses) : Responses[i].env.command = stdin[i].command
        /\ pc \in {"read", "exited"} => Len(Responses) = pos

\* getAccounts then getVersion, both answered
WitC6_AccountsThenVersion ==
    /\ pc = "read"
    /\ pos = 2
    /\ stdin[1].command = "getAccounts"
    /\ stdin[2].command = "getVersion"
    /\ Len(Responses) = 2
    /\ Responses[1].env.message = get_accounts
    /\ Responses[2].env.message = get_broker_version

(***************************************************************************)
(* C7                                                                      *)
(***************************************************************************)
\* whether the startup probe left a live broker handle
ProbeOnline == spawned >= 1 /\ spawnedAt[1] = 0
InitialNotification ==
    [command |-> "brokerStateChanged",
     message |-> Str(IF ProbeOnline THEN "online" ELSE "offline")]

\* C7: in every run, once startup is over (the loop reads, or the process has
\* ended), the first frame on stdout is the brokerStateChanged notification,
\* "online" if the probe produced a handle and "offline" otherwise, and it was
\* written before any inbound frame was read.
ClaimC7_InitialNotificationAlways ==
    (pos >= 1 \/ pc \in {"read", "exited", "crashed"}) =>
        /\ Len(stdout) >= 2
        /\ stdout[1] = Chunk("length", "main", 0, InitialNotification)
        /\ stdout[2] = Chunk("content", "main", 0, InitialNotification)

\* what does hold: when the probe spawned the broker, the "online"
\* notification is the first frame, written before any read
InitialNotificationWhenProbed ==
    (pos >= 1 \/ pc \in {"read", "exited"}) =>
        /\ ProbeOnline
        /\ Len(stdout) >= 2
        /\ stdout[2] = Chunk("content", "main", 0,
                             Envelope("brokerStateChanged", Str("online")))

(***************************************************************************)
(* C8                                                                      *)
(***************************************************************************)
\* C8: when the process has ended, every getVersion request of the inbound
\* stream has a response frame whose message carries native =
\* LINUX_ENTRA_SSO_VERSION, whether or not the broker could be spawned.
ClaimC8_GetVersionAlwaysAnswered ==
    pc \in {"exited", "crashed"} =>
        \A k \in 1..Len(stdin) :
            CommandOf(stdin[k]) = "getVersion" =>
                \E f \in MainFrames(k) :
                    /\ stdout[f].env.command = "getVersion"
                    /\ stdout[f].env.message.native = LINUX_ENTRA_SSO_VERSION

\* what does hold: every getVersion frame the loop has read and is through
\* with is answered with the bridge's version
GetVersionAnsweredWhenRead ==
    \A k \in 1..pos :
        (Handled(k) /\ CommandOf(stdin[k]) = "getVersion") =>
            /\ Cardinality(MainFrames(k)) = 1
            /\ \A f \in MainFrames(k) :
                   stdout[f].env = Envelope("getVersion", get_broker_version)

(***************************************************************************)
(* C9                                                                      *)
(***************************************************************************)
\* C9, as claimed: while the loop waits for the next frame no handle is
\* retained, and every broker call uses a subprocess spawned during the
\* handling of its own frame.
ClaimC9_NoHandleWhileIdle ==
    /\ pc = "read" => broker = 0
    /\ \A j \in 1..Len(calls) : spawnedAt[calls[j].handle] = calls[j].frame

\* C9, amended: no handle is used by two calls, and a handle a call was made
\* on is not retained; while the loop waits for the next frame the only handle
\* that can be retained is the one the startup probe spawned, as long as no
\* call has been made; every call uses a subprocess spawned during the
\* handling of its own frame, except the first call, which uses the
\* subprocess of the startup probe.
ThmC9_HandleUsedOnce ==
    /\ \A i, j \in 1..Len(calls) : i # j => calls[i].handle # calls[j].handle
    /\ pc # "broker_exit" => broker \notin used
    /\ (pc = "read" /\ broker # 0) => (broker = 1 /\ spawnedAt[1] = 0 /\ calls = <<>>)
    /\ \A j \in 1..Len(calls) :
           \/ spawnedAt[calls[j].handle] = calls[j].frame
           \/ (j = 1 /\ calls[j].handle = 1 /\ spawnedAt[1] = 0)

\* two calls were made: the first on the startup probe's subprocess, the
\* second on one spawned for it; the loop is idle and holds no handle
WitC9_ProbeHandleThenFresh ==
    /\ pc = "read"
    /\ broker = 0
    /\ Len(calls) = 2
    /\ calls[1].handle = 1
    /\ spawnedAt[1] = 0
    /\ spawnedAt[calls[2].handle] = 2

(***************************************************************************)
(* C10                                                                     *)
(***************************************************************************)
\* C10, as claimed: the lock is held only around the write of one frame, so
\* the main context does not hold iomutex while a broker round trip is in
\* progress.
ClaimC10_LockNotHeldDuringBrokerCall ==
    pc = "broker_exit" => iomutex # "main"

\* C10, amended: the session loop holds iomutex from the start of the
\* processing of a decoded frame to the end of it (command lookup, broker
\* round trip, response write) and at startup for the initial notification,
\* and never while it reads; the notifier holds it exactly for one frame
\* write. A notification writer so waits for at most the handling of one
\* command, broker call included.
ThmC10_LockSpansCommand ==
    /\ iomutex = "main" <=> pc \in Processing
    /\ iomutex = "notifier" <=> npc \in {"send_length", "send_content", "unlock"}
    /\ pc = "broker_exit" => iomutex = "main"

\* the notifier waits for the lock while a broker round trip is in progress
WitC10_NotifierWaitsForBroker ==
    /\ pc = "broker_exit"
    /\ iomutex = "main"
    /\ npc = "lock"

(***************************************************************************)
(* C12                                                                     *)
(***************************************************************************)
\* C12: a read at the end of the stream, after any number of complete frames,
\* ends the loop with sys.exit(0) and writes nothing; after the exit nothing
\* is written any more; and the loop exits this way only at the end of the
\* stream, with no frame in work.
ThmC12_CleanExitAtEndOfStream ==
    /\ [][(pc = "read" /\ pos = Len(stdin)) => (pc' = "exited" /\ stdout' = stdout)]_vars
    /\ [][pc = "exited" => (pc' = "exited" /\ stdout' = stdout)]_vars
    /\ [](pc = "exited" => (pos = Len(stdin) /\ received = NoMsg /\ iomutex = "free"))

\* the stream ended after two complete frames, both answered
WitC12_ExitAfterTwoFrames ==
    /\ pc = "exited"
    /\ pos = 2
    /\ Len(Responses) = 2
    /\ Len(stdout) = 6

(***************************************************************************)
(* C15                                                                     *)
(***************************************************************************)
UnsuppliedSsoUrl(msg, forms) ==
    /\ msg.kind = "object"
    /\ msg.command = "acquirePrtSsoCookie"
    /\ msg.account # "ABSENT"
    /\ msg.ssoUrl \in forms
CallOf(k) == { j \in 1..Len(calls) : calls[j].frame = k }
CausesOf(k) == { raised[i][2] : i \in { j \in 1..Len(raised) : raised[j][1] = k } }
\* the request to the broker carries the default URL, and the frame is answered
\* with the cookie result unless the broker itself failed
DefaultUrlUsed(k) ==
    /\ CausesOf(k) \subseteq {"spawn", "parse", "empty"}
    /\ "spawn" \notin CausesOf(k) =>
           \E j \in CallOf(k) : calls[j].request.uri = SSO_URL_DEFAULT
    /\ CausesOf(k) = {} =>
           \A f \in MainFrames(k) :
               "cookieName" \in DOMAIN stdout[f].env.message

\* C15: once the loop is through with an acquirePrtSsoCookie request whose
\* ssoUrl is not supplied (absent, null or ""), the GetCookies request it sent
\* carries the default authority URL, and the request did not fail on its own
\* fields.
ClaimC15_DefaultUrlWhenNotSupplied ==
    \A k \in 1..pos :
        (Handled(k) /\ UnsuppliedSsoUrl(stdin[k], {"ABSENT", "NULL", ""})) =>
            DefaultUrlUsed(k)

\* what does hold: the same for an ssoUrl that is present and null or ""
DefaultUrlWhenNullOrEmpty ==
    \A k \in 1..pos :
        (Handled(k) /\ UnsuppliedSsoUrl(stdin[k], {"NULL", ""})) => DefaultUrlUsed(k)

(***************************************************************************)
(* C18                                                                     *)
(***************************************************************************)
\* C18: once the subprocess of a broker call has exited and its output is
\* read, self.broker no longer holds its handle, whether the call then
\* succeeded or raised; and a later call is made on another handle, spawned
\* during the handling of that later call's own frame.
ThmC18_HandleClearedOnEveryOutcome ==
    \A j \in 1..Len(calls) :
        calls[j].handle \notin live =>
            /\ broker # calls[j].handle
            /\ \A i \in (j + 1)..Len(calls) :
                   /\ calls[i].handle # calls[j].handle
                   /\ spawnedAt[calls[i].handle] = calls[i].frame

\* the first call failed after its output was read, the second call is in
\* flight on a handle spawned for it
WitC18_FreshHandleAfterFailedCall ==
    /\ Len(calls) = 2
    /\ pc = "broker_exit"
    /\ CausesOf(calls[1].frame) \cap {"parse", "empty"} # {}
    /\ calls[2].handle # calls[1].handle
    /\ calls[2].handle \in live

(***************************************************************************)
(* C19                                                                     *)
(***************************************************************************)
\* C19: the main context never asks for iomutex while it holds it (at the
\* startup notification and at line 194 it does not hold it, and nothing in
\* command handling asks for it); a lock it holds is eventually released; and
\* once command handling has begun the loop comes back to the read of the
\* next frame, given that the broker subprocess terminates.
ThmC19_NoSelfDeadlock ==
    /\ [](pc \in {"notify", "lock"} => iomutex # "main")
    /\ (iomutex = "main") ~> (iomutex = "free")
    /\ (pc = "handle") ~> (pc = "read")

\* command handling holds the lock, the callback is registered, and
\* _introspect_broker has just spawned a subprocess
WitC19_SpawnInsideLockedHandling ==
    /\ pc = "communicate"
    /\ iomutex = "main"
    /\ cb
    /\ broker # 0
    /\ spawnedAt[broker] = pos
    /\ pos >= 1

MaxCookies == 2

\* "abc123;Path=/;Secure"
Cookie3 ==
    [name |-> "X-Anon",
     data |-> <<"a", "b", "c", "1", "2", "3", ";", "P", "a", "t", "h", "=", "/", ";",
                "S", "e", "c", "u", "r", "e">>]
Cookie4 == [name |-> "bare", data |-> <<";", "x">>]
Cookie5 == [name |-> "none", data |-> <<>>]
Cookies == {Cookie1, Cookie2, Cookie3, Cookie4, Cookie5}
CookieLists == UNION { [1..n -> Cookies] : n \in 0..MaxCookies }
AllReplyJsons ==
    { [kind |-> "invalid"] } \cup { [kind |-> "json", response |-> l] : l \in CookieLists }
\* payload lengths: 9, 10, 13 and 32 are ASCII whitespace as first prefix byte,
\* 266 = 0x010A has the whitespace byte 0x0A first
AllReplyLens == {9, 10, 13, 15, 32, 40, 266}
AllReplies == { [len |-> n, json |-> j] : n \in AllReplyLens, j \in AllReplyJsons }

InitBroker ==
    /\ DaemonInit({<<>>})
    /\ fpc = "reply"
    /\ farg \in AllReplies
    /\ fres = <<>>

\* resp = self._communicate(request), line 122
broker_communicate ==
    /\ fpc = "reply"
    /\ fres' = _communicate(farg)
    /\ fpc' = IF fres'.raised THEN "raised" ELSE "parsed"
    /\ UNCHANGED <<daemonVars, farg>>

\* lines 123-132 on the parsed reply
broker_cookie ==
    /\ fpc = "parsed"
    /\ fres' = CookieResult(fres.resp)
    /\ fpc' = IF fres'.raised THEN "failed" ELSE "cookie"
    /\ UNCHANGED <<daemonVars, farg>>

NextBroker == broker_communicate \/ broker_cookie
SpecBroker == InitBroker /\ [][NextBroker]_vars

(***************************************************************************)
(* C14                                                                     *)
(***************************************************************************)
\* c is the part of d before its first ";" (all of d when it has none)
BeforeFirstSemicolon(c, d) ==
    /\ Len(c) <= Len(d)
    /\ c = SubSeq(d, 1, Len(c))
    /\ \A i \in 1..Len(c) : c[i] # ";"
    /\ Len(c) < Len(d) => d[Len(c) + 1] = ";"

\* C14: on a parsed reply with n cookies, lines 123-132 fail when n = 0 and
\* otherwise return the name of cookie 0 and the part of its data before the
\* first ";", whatever n is; the reply [{X-Anon, "abc123;Path=/;Secure"}]
\* gives {X-Anon, "abc123"}.
ThmC14_FirstCookieUpToSemicolon ==
    fpc \in {"cookie", "failed"} =>
        LET cookies == farg.json.response
        IN  /\ (fpc = "failed") <=> (Len(cookies) = 0)
            /\ fpc = "cookie" =>
                   /\ fres.value.cookieName = cookies[1].name
                   /\ BeforeFirstSemicolon(fres.value.cookieContent, cookies[1].data)
            /\ (fpc = "cookie" /\ cookies[1] = Cookie3) =>
                   fres.value = [cookieName |-> "X-Anon",
                                 cookieContent |-> <<"a", "b", "c", "1", "2", "3">>]

\* two cookies, the first one the example: the call succeeded on the first
WitC14_TwoCookiesFirstUsed ==
    /\ fpc = "cookie"
    /\ farg.json.response = <<Cookie3, Cookie2>>
    /\ fres.value.cookieName = "X-Anon"

(***************************************************************************)
(* C17                                                                     *)
(***************************************************************************)
\* C17: for every reply made of a 4-byte length prefix and a JSON payload,
\* whatever the payload length, _communicate takes off exactly the prefix and
\* returns the parsed payload.
ClaimC17_PrefixRemovedForEveryLength ==
    (fpc \in {"parsed", "raised"} /\ farg.json.kind = "json") =>
        fres = [raised |-> FALSE, resp |-> farg.json]

\* what does hold: the same for the lengths whose first prefix byte is not
\* ASCII whitespace
PrefixRemovedUnlessWhitespace ==
    (fpc \in {"parsed", "raised"} /\ farg.json.kind = "json"
        /\ ~IsSpace(PackL(farg.len)[1])) =>
        fres = [raised |-> FALSE, resp |-> farg.json]

(***************************************************************************)
(* Interactive mode, run_interactive: one invocation with parsed arguments *)
(* farg = [command, account, ssoUrl]; fres collects what was printed to    *)
(* standard output (out), the broker operation begun (op) and the exit     *)
(* status (status, -1 while running).                                      *)
(***************************************************************************)
MaxIndex == 3

InteractiveCommands ==
    {"getAccounts", "getVersion", "acquirePrtSsoCookie", "acquireTokenSilently", "monitor"}
InteractiveArgs ==
    [command : InteractiveCommands,
     account : -MaxIndex..MaxIndex,
     ssoUrl : {SSO_URL_DEFAULT, "https://login.example/"}]

\* list[i] of Python: negative indices count from the end, IndexError outside
\* -len..len-1
ListIndex(l, i) ==
    IF 0 <= i /\ i < Len(l) THEN [raised |-> FALSE, value |-> l[i + 1]]
    ELSE IF i < 0 /\ -i <= Len(l) THEN [raised |-> FALSE, value |-> l[Len(l) + i + 1]]
    ELSE [raised |-> TRUE, value |-> [name |-> "", username |-> ""]]

\* run_interactive._get_account: the account, or the error body and exit(1)
_get_account(accounts, idx) ==
    LET r == ListIndex(accounts.accounts, idx)
    IN  IF r.raised
        THEN [exit |-> TRUE, printed |-> [error |-> "invalid account index", index |-> idx],
              account |-> r.value]
        ELSE [exit |-> FALSE, printed |-> [error |-> ""], account |-> r.value]

Running0 == [out |-> <<>>, op |-> "none", status |-> -1, accounts |-> [accounts |-> <<>>],
             account |-> [name |-> "", username |-> ""]]

InitInteractive ==
    /\ DaemonInit({<<>>})
    /\ fpc = "args"
    /\ farg \in InteractiveArgs
    /\ fres = Running0

\* lines 249-251: SsoMib(daemon=False) spawns nothing; the accounts are fetched
interactive_accounts ==
    /\ fpc = "args"
    /\ fres' = [fres EXCEPT !.accounts = get_accounts]
    /\ fpc' = "dispatch"
    /\ UNCHANGED <<daemonVars, farg>>

\* lines 255-268, up to the call of the broker operation
interactive_dispatch ==
    /\ fpc = "dispatch"
    /\ CASE farg.command = "getAccounts" ->
              /\ fres' = [fres EXCEPT !.out = <<fres.accounts>>, !.status = 0]
              /\ fpc' = "done"
         [] farg.command = "getVersion" ->
              /\ fres' = [fres EXCEPT !.out = <<get_broker_version>>, !.status = 0]
              /\ fpc' = "done"
         [] farg.command = "monitor" ->
              /\ fres' = [fres EXCEPT !.status = 0]
              /\ fpc' = "done"
         [] OTHER ->
              LET g == _get_account(fres.accounts, farg.account)
              IN  IF g.exit
                  THEN /\ fres' = [fres EXCEPT !.out = <<g.printed>>, !.status = 1]
                       /\ fpc' = "done"
                  ELSE /\ fres' = [fres EXCEPT !.account = g.account]
                       /\ fpc' = "operate"
    /\ UNCHANGED <<daemonVars, farg>>

\* lines 261 and 265: the operation is called on the selected account;
\* acquire_prt_sso_cookie begins with _introspect_broker (Popen may raise)
interactive_operate ==
    /\ fpc = "operate"
    /\ IF farg.command = "acquireTokenSilently"
       THEN /\ fres' = [fres EXCEPT !.op = farg.command,
                                    !.out = <<acquire_token_silently>>, !.status = 0]
            /\ fpc' = "done"
       ELSE \E ok \in BOOLEAN :
              LET r == _introspect_broker(0, 0, ok)
              IN  IF r.raised
                  THEN /\ fres' = [fres EXCEPT !.op = farg.command, !.status = 1]
                       /\ fpc' = "done"
                  ELSE /\ fres' = [fres EXCEPT !.op = farg.command]
                       /\ fpc' = "broker"
    /\ UNCHANGED <<daemonVars, farg>>

\* lines 122-132 and 262: the reply of the broker; an exception is not caught
\* in interactive mode and ends the process with a traceback, status 1
interactive_broker ==
    /\ fpc = "broker"
    /\ \E reply \in BrokerReplies :
         LET r == _communicate(reply)
             c == CookieResult(r.resp)
         IN  IF r.raised \/ c.raised
             THEN fres' = [fres EXCEPT !.status = 1]
             ELSE fres' = [fres EXCEPT !.out = <<c.value>>, !.status = 0]
    /\ fpc' = "done"
    /\ UNCHANGED <<daemonVars, farg>>

NextInteractive ==
    \/ interactive_accounts
    \/ interactive_dispatch
    \/ interactive_operate
    \/ interactive_broker
SpecInteractive == InitInteractive /\ [][NextInteractive]_vars

(***************************************************************************)
(* C16                                                                     *)
(***************************************************************************)
NeedsAccount == farg.command \in {"acquirePrtSsoCookie", "acquireTokenSilently"}
IndexInRange == 0 <= farg.account /\ farg.account < Len(fres.accounts.accounts)
ErrorExit ==
    /\ fpc = "done"
    /\ fres.status # 0
    /\ Len(fres.out) = 1
    /\ "error" \in DOMAIN fres.out[1]
    /\ fres.op = "none"

\* C16: for acquirePrtSsoCookie and acquireTokenSilently, once the account has
\* been looked up with an index outside 0..n-1, too large or negative, the
\* invocation has printed an {error} body, exited with a non-zero status and
\* not begun the broker operation.
ClaimC16_OutOfRangeIndexIsErrorExit ==
    (NeedsAccount /\ fpc \notin {"args", "dispatch"} /\ ~IndexInRange) => ErrorExit

\* what does hold: the same for the indices that list indexing rejects, those
\* outside -n..n-1
IndexErrorIsErrorExit ==
    (NeedsAccount /\ fpc \notin {"args", "dispatch"}
        /\ (farg.account >= Len(fres.accounts.accounts)
            \/ farg.account < -Len(fres.accounts.accounts))) => ErrorExit

(***************************************************************************)
(* The frame codec on bytes.  A JSON value is a record tagged by t, with   *)
(* one field per type: b (bool), n (int), repr (float, kept as its text),  *)
(* s (string, a sequence of code points), items (array), members (object,  *)
(* key/value pairs in insertion order, as a dict keeps them).  Bytes and   *)
(* characters are numbers.                                                 *)
(***************************************************************************)
JNull == [t |-> "null"]
JBool(b) == [t |-> "bool", b |-> b]
JNum(n) == [t |-> "num", n |-> n]
JFloat(r) == [t |-> "float", repr |-> r]
JStr(s) == [t |-> "str", s |-> s]
JArr(items) == [t |-> "arr", items |-> items]
JObj(members) == [t |-> "obj", members |-> members]

RECURSIVE Digits(_)
Digits(n) == IF n < 10 THEN <<48 + n>> ELSE Digits(n \div 10) \o <<48 + (n % 10)>>
HexDigit(d) == IF d < 10 THEN 48 + d ELSE 87 + d
\* "\\u{0:04x}" of json.encoder, for a code point below 0x10000
Hex4(c) ==
    << 92, 117, HexDigit((c \div 4096) % 16), HexDigit((c \div 256) % 16),
       HexDigit((c \div 16) % 16), HexDigit(c % 16) >>

\* json.encoder.py_encode_basestring_ascii (ensure_ascii is left at True)
EscapeChar(c) ==
    CASE c = 34 -> <<92, 34>>
      [] c = 92 -> <<92, 92>>
      [] c = 10 -> <<92, 110>>
      [] c = 13 -> <<92, 114>>
      [] c = 9 -> <<92, 116>>
      [] c = 8 -> <<92, 98>>
      [] c = 12 -> <<92, 102>>
      [] OTHER -> IF c < 32 \/ c > 126 THEN Hex4(c) ELSE <<c>>
RECURSIVE EscapeString(_)
EscapeString(s) == IF s = <<>> THEN <<>> ELSE EscapeChar(Head(s)) \o EscapeString(Tail(s))

\* json.dumps(message_content, separators=(",", ":")), line 54
RECURSIVE Dumps(_)
RECURSIVE DumpsItems(_)
RECURSIVE DumpsMembers(_)
DumpsItems(items) ==
    IF items = <<>> THEN <<>>
    ELSE Dumps(Head(items)) \o
         (IF Len(items) > 1 THEN <<44>> ELSE <<>>) \o DumpsItems(Tail(items))
DumpsMembers(members) ==
    IF members = <<>> THEN <<>>
    ELSE <<34>> \o EscapeString(Head(members).key) \o <<34, 58>> \o Dumps(Head(members).value) \o
         (IF Len(members) > 1 THEN <<44>> ELSE <<>>) \o DumpsMembers(Tail(members))
Dumps(v) ==
    CASE v.t = "null" -> <<110, 117, 108, 108>>
      [] v.t = "bool" -> IF v.b THEN <<116, 114, 117, 101>> ELSE <<102, 97, 108, 115, 101>>
      [] v.t = "num" -> IF v.n < 0 THEN <<45>> \o Digits(-v.n) ELSE Digits(v.n)
      [] v.t = "float" -> v.repr
      [] v.t = "str" -> <<34>> \o EscapeString(v.s) \o <<34>>
      [] v.t = "arr" -> <<91>> \o DumpsItems(v.items) \o <<93>>
      [] v.t = "obj" -> <<123>> \o DumpsMembers(v.members) \o <<125>>

\* str.encode("utf-8") and bytes.decode("utf-8"), for code points below 0x800
\* (one- and two-byte forms; every other byte sequence drawn here is invalid)
RECURSIVE Utf8Encode(_)
Utf8Encode(s) ==
    IF s = <<>> THEN <<>>
    ELSE (IF Head(s) < 128 THEN <<Head(s)>>
          ELSE <<192 + (Head(s) \div 64), 128 + (Head(s) % 64)>>) \o Utf8Encode(Tail(s))
RECURSIVE Utf8Decode(_)
Utf8Decode(b) ==
    IF b = <<>> THEN [ok |-> TRUE, text |-> <<>>]
    ELSE IF b[1] < 128
         THEN LET r == Utf8Decode(Tail(b))
              IN  [ok |-> r.ok, text |-> <<b[1]>> \o r.text]
    ELSE IF b[1] \in 194..223 /\ Len(b) >= 2 /\ b[2] \in 128..191
         THEN LET r == Utf8Decode(SubSeq(b, 3, Len(b)))
              IN  [ok |-> r.ok, text |-> <<(b[1] - 192) * 64 + (b[2] - 128)>> \o r.text]
    ELSE [ok |-> FALSE, text |-> <<>>]

\* struct.pack("@I", n) and struct.unpack("@I", raw): 32 bits, little endian
\* (the native order of the supported platforms)
PackI(n) == << n % 256, (n \div 256) % 256, (n \div 65536) % 256, (n \div 16777216) % 256 >>
UnpackI_big_endian(raw) == raw[1] * 16777216 + raw[2] * 65536 + raw[3] * 256 + raw[4]
UnpackI(raw) == raw[1] + raw[2] * 256 + raw[3] * 65536 + raw[4] * 16777216

(***************************************************************************)
(* json.loads, as json.decoder and json.scanner read a text: a result is   *)
(* [ok, value, next], next the index after the value                       *)
(***************************************************************************)
At(t, i) == IF 1 <= i /\ i <= Len(t) THEN t[i] ELSE -1
IsDigit(c) == c \in 48..57
IsWs(c) == c \in {32, 9, 10, 13}
RECURSIVE SkipWs(_, _)
SkipWs(t, i) == IF IsWs(At(t, i)) THEN SkipWs(t, i + 1) ELSE i
RECURSIVE DigitsEnd(_, _)
DigitsEnd(t, i) == IF IsDigit(At(t, i)) THEN DigitsEnd(t, i + 1) ELSE i
RECURSIVE IntVal(_)
IntVal(d) == IF d = <<>> THEN 0 ELSE IntVal(SubSeq(d, 1, Len(d) - 1)) * 10 + (d[Len(d)] - 48)
HexVal(c) ==
    IF c \in 48..57 THEN c - 48
    ELSE IF c \in 97..102 THEN c - 87
    ELSE IF c \in 65..70 THEN c - 55
    ELSE -1
StartsWith(t, i, lit) == i + Len(lit) - 1 <= Len(t) /\ SubSeq(t, i, i + Len(lit) - 1) = lit
Fail == [ok |-> FALSE, value |-> JNull, next |-> 0]
Infinity == <<73, 110, 102, 105, 110, 105, 116, 121>>
Parsed(v, i) == [ok |-> TRUE, value |-> v, next |-> i]

\* the characters after a backslash, json.decoder.BACKSLASH
Unescape(c) ==
    CASE c = 34 -> 34
      [] c = 92 -> 92
      [] c = 47 -> 47
      [] c = 98 -> 8
      [] c = 102 -> 12
      [] c = 110 -> 10
      [] c = 114 -> 13
      [] c = 116 -> 9
      [] OTHER -> -1

\* json.decoder.py_scanstring, strict: i is the index after the opening quote
\* (surrogate pairs are not joined: no text drawn here holds one)
RECURSIVE ScanString(_, _, _)
ScanString(t, i, acc) ==
    LET c == At(t, i)
    IN  IF c = -1 \/ (0 <= c /\ c < 32) THEN Fail
        ELSE IF c = 34 THEN Parsed(JStr(acc), i + 1)
        ELSE IF c # 92 THEN ScanString(t, i + 1, acc \o <<c>>)
        ELSE IF At(t, i + 1) = 117
             THEN LET h == [k \in 1..4 |-> HexVal(At(t, i + 1 + k))]
                  IN  IF \E k \in 1..4 : h[k] = -1 THEN Fail
                      ELSE ScanString(t, i + 6,
                               acc \o <<h[1] * 4096 + h[2] * 256 + h[3] * 16 + h[4]>>)
        ELSE IF Unescape(At(t, i + 1)) = -1 THEN Fail
        ELSE ScanString(t, i + 2, acc \o <<Unescape(At(t, i + 1))>>)

\* json.scanner.NUMBER_RE, (-?(?:0|[1-9]\d*))(\.\d+)?([eE][-+]?\d+)?
ScanNumber(t, i) ==
    LET j == IF At(t, i) = 45 THEN i + 1 ELSE i
        e == IF At(t, j) = 48 THEN j + 1 ELSE DigitsEnd(t, j)
        f == IF At(t, e) = 46 /\ IsDigit(At(t, e + 1)) THEN DigitsEnd(t, e + 1) ELSE e
        x == IF At(t, f + 1) \in {43, 45} THEN f + 2 ELSE f + 1
        g == IF At(t, f) \in {101, 69} /\ IsDigit(At(t, x)) THEN DigitsEnd(t, x) ELSE f
    IN  IF ~IsDigit(At(t, j)) THEN Fail
        ELSE IF g > e THEN Parsed(JFloat(SubSeq(t, i, g - 1)), g)
        ELSE Parsed(JNum(IF j > i THEN -IntVal(SubSeq(t, j, e - 1))
                                   ELSE IntVal(SubSeq(t, j, e - 1))), e)

\* dict assignment: a repeated key keeps its place and takes the new value
AddMember(members, k, v) ==
    IF \E p \in 1..Len(members) : members[p].key = k
    THEN [p \in 1..Len(members) |->
             IF members[p].key = k THEN [key |-> k, value |-> v] ELSE members[p]]
    ELSE Append(members, [key |-> k, value |-> v])

RECURSIVE ScanOnce(_, _)
RECURSIVE ArrayItems(_, _, _)
RECURSIVE ObjectMembers(_, _, _)
\* json.decoder.JSONArray after the first value position is found
ArrayItems(t, i, acc) ==
    LET r == ScanOnce(t, i)
        j == SkipWs(t, r.next)
    IN  IF ~r.ok THEN Fail
        ELSE IF At(t, j) = 93 THEN Parsed(JArr(Append(acc, r.value)), j + 1)
        ELSE IF At(t, j) = 44 THEN ArrayItems(t, SkipWs(t, j + 1), Append(acc, r.value))
        ELSE Fail
\* json.decoder.JSONObject: i is the index of the opening quote of a key
ObjectMembers(t, i, acc) ==
    LET k == IF At(t, i) = 34 THEN ScanString(t, i + 1, <<>>) ELSE Fail
        c == SkipWs(t, k.next)
        r == ScanOnce(t, SkipWs(t, c + 1))
        j == SkipWs(t, r.next)
    IN  IF ~k.ok \/ At(t, c) # 58 THEN Fail
        ELSE IF ~r.ok THEN Fail
        ELSE IF At(t, j) = 125 THEN Parsed(JObj(AddMember(acc, k.value.s, r.value)), j + 1)
        ELSE IF At(t, j) = 44
             THEN ObjectMembers(t, SkipWs(t, j + 1), AddMember(acc, k.value.s, r.value))
        ELSE Fail
\* json.scanner.py_make_scanner._scan_once
ScanOnce(t, i) ==
    LET c == At(t, i)
    IN  CASE c = 34 -> ScanString(t, i + 1, <<>>)
          [] c = 123 -> IF At(t, SkipWs(t, i + 1)) = 125
                        THEN Parsed(JObj(<<>>), SkipWs(t, i + 1) + 1)
                        ELSE ObjectMembers(t, SkipWs(t, i + 1), <<>>)
          [] c = 91 -> IF At(t, SkipWs(t, i + 1)) = 93
                       THEN Parsed(JArr(<<>>), SkipWs(t, i + 1) + 1)
                       ELSE ArrayItems(t, SkipWs(t, i + 1), <<>>)
          [] c = 110 /\ StartsWith(t, i, <<110, 117, 108, 108>>) -> Parsed(JNull, i + 4)
          [] c = 116 /\ StartsWith(t, i, <<116, 114, 117, 101>>) -> Parsed(JBool(TRUE), i + 4)
          [] c = 102 /\ StartsWith(t, i, <<102, 97, 108, 115, 101>>) ->
                 Parsed(JBool(FALSE), i + 5)
          [] IsDigit(c) \/ (c = 45 /\ IsDigit(At(t, i + 1))) -> ScanNumber(t, i)
          [] c = 78 /\ StartsWith(t, i, <<78, 97, 78>>) -> Parsed(JFloat(<<78, 97, 78>>), i + 3)
          [] c = 73 /\ StartsWith(t, i, Infinity) -> Parsed(JFloat(Infinity), i + 8)
          [] c = 45 /\ StartsWith(t, i + 1, Infinity) -> Parsed(JFloat(<<45>> \o Infinity), i + 9)
          [] OTHER -> Fail

\* json.loads: leading and trailing whitespace allowed, "Extra data" otherwise
Loads(t) ==
    LET r == ScanOnce(t, SkipWs(t, 1))
    IN  IF r.ok /\ SkipWs(t, r.next) = Len(t) + 1 THEN r ELSE Fail

(***************************************************************************)
(* NativeMessaging on a byte stream                                        *)
(***************************************************************************)
Take(b, n) == SubSeq(b, 1, IF n < Len(b) THEN n ELSE Len(b))
Drop(b, n) == SubSeq(b, n + 1, Len(b))

\* NativeMessaging.encode_message
encode_message(message_content) ==
    LET encoded_content == Utf8Encode(Dumps(message_content))
    IN  [length |-> PackI(Len(encoded_content)), content |-> encoded_content]

\* NativeMessaging.send_message: what the two writes put on the stream
send_message(encoded_message) == encoded_message.length \o encoded_message.content

\* NativeMessaging.get_message on the bytes left on stdin: read(k) returns up
\* to k bytes, fewer only at the end of the stream
get_message_bytes(stream) ==
    LET raw_length == Take(stream, 4)
        message_length == UnpackI(raw_length)
        body == Take(Drop(stream, 4), message_length)
        message == Utf8Decode(body)
        value == Loads(message.text)
        rest == Drop(stream, 4 + Len(body))
    IN  IF raw_length = <<>> THEN [kind |-> "exit", value |-> JNull, rest |-> stream]
        ELSE IF Len(raw_length) < 4
             THEN [kind |-> "struct.error", value |-> JNull, rest |-> Drop(stream, 4)]
        ELSE IF ~message.ok
             THEN [kind |-> "UnicodeDecodeError", value |-> JNull, rest |-> rest]
        ELSE IF ~value.ok THEN [kind |-> "JSONDecodeError", value |-> JNull, rest |-> rest]
        ELSE [kind |-> "message", value |-> value.value, rest |-> rest]

MaxItems == 2
MaxCut == 6

\* "", "a", the quote and the backslash, a newline and U+00E9
JsonStrings == { <<>>, <<97>>, <<34, 92>>, <<10, 233>> }
JsonScalars ==
    {JNull, JBool(TRUE), JBool(FALSE), JNum(0), JNum(105), JNum(-12)}
        \cup { JStr(x) : x \in JsonStrings }
JsonArrays == { JArr(l) : l \in UNION { [1..n -> JsonScalars] : n \in 0..MaxItems } }
JsonKeys == { <<107>>, <<34>> }
JsonObjects ==
    {JObj(<<>>)}
        \cup { JObj(<<[key |-> k, value |-> v]>>) : k \in JsonKeys, v \in JsonScalars }
        \cup { JObj(<<[key |-> <<107>>, value |-> v], [key |-> <<34>>, value |-> w]>>) :
                  v \in JsonScalars, w \in {JNull, JNum(105), JStr(<<34, 92>>)} }
JsonNested ==
    { JArr(<<JArr(<<>>), JObj(<<[key |-> <<107>>, value |-> JArr(<<JNum(0)>>)]>>)>>),
      JObj(<<[key |-> <<107>>, value |-> JObj(<<[key |-> <<107>>, value |-> JNull]>>)]>>) }
JsonValues == JsonScalars \cup JsonArrays \cup JsonObjects \cup JsonNested

\* what follows the frame on the stream: nothing, another frame, or bytes
\* that are no frame
Afters == { <<>>, send_message(encode_message(JBool(TRUE))), <<2, 0, 0>> }

\* the stream as the reader finds it: cut = 0 the whole frame and what follows,
\* cut > 0 only its first cut bytes, cut < 0 all but its last -cut bytes
Inbound(frame, cut, after) ==
    IF cut = 0 THEN frame \o after
    ELSE IF cut > 0 THEN Take(frame, cut)
    ELSE Take(frame, Len(frame) + cut)
CodecArgs ==
    { a \in [message : JsonValues, cut : -MaxCut..MaxCut, after : Afters] :
        LET n == Len(send_message(encode_message(a.message)))
        IN  \/ a.cut = 0
            \/ a.after = <<>> /\ a.cut > 0 /\ a.cut < n
            \/ a.after = <<>> /\ a.cut < 0 /\ -a.cut < n }

(***************************************************************************)
(* One message through the codec: encode_message, send_message, then       *)
(* get_message called on the stream until it exits or raises.  fres holds  *)
(* the encoded message, the bytes left on the stream, the messages         *)
(* returned, the number of get_message calls and the outcome of the last.  *)
(***************************************************************************)
InitCodec ==
    /\ DaemonInit({<<>>})
    /\ fpc = "encode"
    /\ farg \in CodecArgs
    /\ fres = [encoded |-> [length |-> <<>>, content |-> <<>>], stream |-> <<>>,
               got |-> <<>>, reads |-> 0, last |-> "none"]

codec_encode ==
    /\ fpc = "encode"
    /\ fres' = [fres EXCEPT !.encoded = encode_message(farg.message)]
    /\ fpc' = "send"
    /\ UNCHANGED <<daemonVars, farg>>

\* send_message writes the frame; the reader's stream is what arrives of it
codec_send ==
    /\ fpc = "send"
    /\ fres' = [fres EXCEPT !.stream = Inbound(send_message(fres.encoded), farg.cut, farg.after)]
    /\ fpc' = "receive"
    /\ UNCHANGED <<daemonVars, farg>>

codec_get_message ==
    /\ fpc = "receive"
    /\ LET r == get_message_bytes(fres.stream)
       IN  /\ fres' = [fres EXCEPT !.stream = r.rest,
                                   !.got = IF r.kind = "message" THEN Append(@, r.value) ELSE @,
                                   !.reads = @ + 1,
                                   !.last = r.kind]
           /\ fpc' = CASE r.kind = "message" -> "receive"
                       [] r.kind = "exit" -> "exited"
                       [] OTHER -> "crashed"
    /\ UNCHANGED <<daemonVars, farg>>

NextCodec == codec_encode \/ codec_send \/ codec_get_message
SpecCodec == InitCodec /\ [][NextCodec]_vars

(***************************************************************************)
(* C11                                                                     *)
(***************************************************************************)
\* C11: on a stream that ends inside a frame, after 1 to 3 bytes of the
\* prefix or after the prefix and fewer payload bytes than it announces,
\* get_message raises: it returns no message and does not exit as at the end
\* of the stream.
ClaimC11_TruncatedFrameIsAnError ==
    (farg.cut # 0 /\ fres.reads >= 1) => (fpc = "crashed" /\ fres.got = <<>>)

\* what does hold: a stream that ends inside the length prefix raises
\* struct.error
IncompletePrefixRaises ==
    (farg.cut \in 1..3 /\ fres.reads >= 1) =>
        (fpc = "crashed" /\ fres.last = "struct.error" /\ fres.got = <<>>)

(***************************************************************************)
(* C13                                                                     *)
(***************************************************************************)
\* C13: encode_message(m) is a 4-byte prefix holding the byte length of the
\* payload, then the payload; get_message on a stream that begins with these
\* bytes returns m and leaves the stream at the first byte after the frame,
\* so that a frame that follows is decoded by the next call.
ThmC13_FrameRoundTrip ==
    /\ fpc # "encode" =>
           /\ Len(fres.encoded.length) = 4
           /\ \A i \in 1..4 : fres.encoded.length[i] \in 0..255
           /\ fres.encoded.length[1] + 256 * fres.encoded.length[2]
                  + 65536 * fres.encoded.length[3] + 16777216 * fres.encoded.length[4]
              = Len(fres.encoded.content)
    /\ (farg.cut = 0 /\ fres.reads >= 1) => (fres.got # <<>> /\ fres.got[1] = farg.message)
    /\ (farg.cut = 0 /\ fres.reads = 1) => (fpc = "receive" /\ fres.stream = farg.after)
    /\ (farg.cut = 0 /\ fres.reads = 2 /\ farg.after = send_message(encode_message(JBool(TRUE))))
           => (fres.got = <<farg.message, JBool(TRUE)>> /\ fres.stream = <<>>)

\* an object with an escaped key and an escaped string came back, and so did
\* the frame after it
WitC13_EscapedObjectThenNextFrame ==
    /\ farg.cut = 0
    /\ farg.message = JObj(<<[key |-> <<107>>, value |-> JStr(<<10, 233>>)],
                             [key |-> <<34>>, value |-> JStr(<<34, 92>>)]>>)
    /\ fres.reads = 2
    /\ fres.got = <<farg.message, JBool(TRUE)>>

====
